---- MODULE Spec2Model ----
(***************************************************************************)
(* Model of the forecast acquisition and caching pipeline of the relative  *)
(* humidity dashboard (src/app.py): classifier, response normalizer,       *)
(* forecast client, concurrent collector, sanitizer, daily cache and the   *)
(* /refresh trigger.                                                       *)
(***************************************************************************)
EXTENDS Integers, Sequences, FiniteSets, TLC

VARIABLES
    mode,    \* which component the behaviour exercises
    cv,      \* classifier: the input value (scaled) or NaN
    cout,    \* classifier: the returned class, NaN, or "pending"
    step,    \* "start" before the component's call, "done" after it
    prec,    \* normalizer: the per-day record handed to _get_min
    pout,    \* normalizer: the value _get_min returned
    http,    \* client: what the HTTP call of this _fetch_one does
    fres,    \* client: what _fetch_one did (raised, or the mapping it returned)
    nreq,    \* client: requests performed so far
    bloaded, \* collector: the CD_MUN column load_attr_municipios returned
    bmaxmun, \* collector: the MAX_MUN setting
    bresp,   \* collector: what the HTTP call of each entity's fetch does
    battr,   \* collector: attr, the entities of this run
    btoday,  \* collector: today (line 180)
    bdone,   \* collector: positions in attr whose future has been consumed
    brows,   \* collector: rows
    bstate,  \* collector: "init", "collect", "returned" or "KeyError"
    now,     \* cache: the current calendar day in the operating timezone
    rtoken,  \* cache: REFRESH_TOKEN, "" when no credential is configured
    booted,  \* cache: "importing" (lines 282-312 running), "serving" or "dead"
    cache,   \* cache: _CACHE, [key, df]
    th,      \* cache: per thread, its request and its position in get_data
    lfile,   \* loader: the workbook at the path handed to load_attr_municipios
    lres     \* loader: what load_attr_municipios did (raised, or the frame returned)

normVars == <<prec, pout>>
fetchVars == <<http, fres, nreq>>
buildVars == <<bloaded, bmaxmun, bresp, battr, btoday, bdone, brows, bstate>>
cacheVars == <<now, rtoken, booted, cache, th>>
loadVars == <<lfile, lres>>
vars == <<mode, cv, cout, step, prec, pout, http, fres, nreq,
          bloaded, bmaxmun, bresp, battr, btoday, bdone, brows, bstate,
          now, rtoken, booted, cache, th, lfile, lres>>

\* A float is modelled as the one-element tuple <<n>>; not-a-number (pandas
\* NA, the "unknown" value of the pipeline) as the empty tuple.
NaN == << >>
Num(n) == << n >>
\* np.nan returned where a class name is expected
NoClass == "nan"

(***************************************************************************)
(* Classifier (classificar_rhmin).  Humidity values are floats; the model  *)
(* carries a value v as the integer v * Scale, so that non-integer values  *)
(* between two bins exist: Num(n) stands for the float n / Scale.           *)
(***************************************************************************)
Scale == 2
MaxRH == 101
MinRH == 3

CLASS_ORDER ==
    << "Ideal (>60%)", "Quase ideal (41-60%)", "Observacao (30-40%)",
       "Atencao (20-29%)", "Caso de alerta (12-19%)", "Emergencia (<12%)" >>

\* plausible slip: the Ideal bin closed at 60 and the Attention bin closed at 30
classificar_rhmin_closed(x) ==
    IF x = NaN THEN NoClass
    ELSE LET v == x[1] IN
    IF v >= 60 * Scale THEN CLASS_ORDER[1]
    ELSE IF 41 * Scale <= v /\ v <= 60 * Scale THEN CLASS_ORDER[2]
    ELSE IF 30 * Scale <= v /\ v <= 40 * Scale THEN CLASS_ORDER[3]
    ELSE IF 20 * Scale <= v /\ v < 30 * Scale THEN CLASS_ORDER[4]
    ELSE IF 12 * Scale <= v /\ v <= 19 * Scale THEN CLASS_ORDER[5]
    ELSE IF 0 <= v /\ v < 12 * Scale THEN CLASS_ORDER[6]
    ELSE NoClass

classificar_rhmin(x) ==
    IF x = NaN THEN NoClass
    ELSE LET v == x[1] IN
    IF v > 60 * Scale THEN CLASS_ORDER[1]
    ELSE IF 41 * Scale <= v /\ v <= 60 * Scale THEN CLASS_ORDER[2]
    ELSE IF 30 * Scale <= v /\ v <= 40 * Scale THEN CLASS_ORDER[3]
    ELSE IF 20 * Scale <= v /\ v <= 29 * Scale THEN CLASS_ORDER[4]
    ELSE IF 12 * Scale <= v /\ v <= 19 * Scale THEN CLASS_ORDER[5]
    ELSE IF 0 <= v /\ v < 12 * Scale THEN CLASS_ORDER[6]
    ELSE NoClass

(***************************************************************************)
(* Response Normalizer (_parse_inmet_resp and its helper _get_min).        *)
(* A decoded JSON value is a record [t, n, l]: t is its Python type as the *)
(* code distinguishes it, n its number, l its elements when it is a list   *)
(* and its items [k, v], in insertion order, when it is a dict.            *)
(***************************************************************************)
JNum(n)    == [t |-> "num",    n |-> n, l |-> << >>]   \* 28, 28.0
JNumStr(n) == [t |-> "numstr", n |-> n, l |-> << >>]   \* "28"
JBadStr    == [t |-> "badstr", n |-> 0, l |-> << >>]   \* "n/d"
JNanStr    == [t |-> "nanstr", n |-> 0, l |-> << >>]   \* "nan"
JNull      == [t |-> "null",   n |-> 0, l |-> << >>]   \* null
JList(e)   == [t |-> "list",   n |-> 0, l |-> e]       \* [ ... ] of scalars
JDict(i)   == [t |-> "dict",   n |-> 0, l |-> i]       \* { k: v, ... }

\* float(x): [ok |-> FALSE] stands for the ValueError / TypeError it raises
Float(x) ==
    IF x.t \in {"num", "numstr"} THEN [ok |-> TRUE, val |-> Num(x.n)]
    ELSE IF x.t = "nanstr" THEN [ok |-> TRUE, val |-> NaN]
    ELSE [ok |-> FALSE, val |-> NaN]

\* pd.to_numeric(..., errors="coerce") on one element
ToNumeric(x) ==
    IF x.t \in {"num", "numstr"} THEN Num(x.n) ELSE NaN

\* np.nanmin over the coerced elements of a list; NaN when none is a number
NanMin(e) ==
    LET nums == {ToNumeric(e[i])[1] : i \in {j \in 1..Len(e) : ToNumeric(e[j]) # NaN}}
    IN IF nums = {} THEN NaN
       ELSE Num(CHOOSE m \in nums : \A o \in nums : m <= o)

ALIASES == << "umidade_min", "ur_min", "umi_min", "umidadeMin", "UR_min" >>

\* k in d, d[k]
HasKey(items, k) == \E i \in 1..Len(items) : items[i].k = k
Lookup(items, k) == items[CHOOSE i \in 1..Len(items) : items[i].k = k].v

\* lines 125-130: the alias loop, from alias number i on
RECURSIVE AliasScan(_, _)
AliasScan(items, i) ==
    IF i > Len(ALIASES) THEN [found |-> FALSE, val |-> NaN]
    ELSE IF HasKey(items, ALIASES[i]) /\ Float(Lookup(items, ALIASES[i])).ok
         THEN [found |-> TRUE, val |-> Float(Lookup(items, ALIASES[i])).val]
         ELSE AliasScan(items, i + 1)

\* plausible slip: the first present alias decides, parseable or not
RECURSIVE AliasScanFirstPresent(_, _)
AliasScanFirstPresent(items, i) ==
    IF i > Len(ALIASES) THEN [found |-> FALSE, val |-> NaN]
    ELSE IF HasKey(items, ALIASES[i])
         THEN [found |-> TRUE,
               val |-> IF Float(Lookup(items, ALIASES[i])).ok
                       THEN Float(Lookup(items, ALIASES[i])).val ELSE NaN]
         ELSE AliasScanFirstPresent(items, i + 1)

\* line 134: a non-empty list whose first element is an int, float or str
ScalarList(v) ==
    /\ v.t = "list"
    /\ Len(v.l) > 0
    /\ v.l[1].t \in {"num", "numstr", "badstr", "nanstr"}

\* lines 132-140: the scan of the record's values, from item number i on
RECURSIVE FallbackScan(_, _)
FallbackScan(items, i) ==
    IF i > Len(items) THEN [found |-> FALSE, val |-> NaN]
    ELSE IF ScalarList(items[i].v) /\ NanMin(items[i].v.l) # NaN
         THEN [found |-> TRUE, val |-> NanMin(items[i].v.l)]
         ELSE FallbackScan(items, i + 1)

get_min_first_present(d) ==
    IF d.t # "dict" THEN NaN
    ELSE LET a == AliasScanFirstPresent(d.l, 1) IN
         IF a.found THEN a.val
         ELSE LET f == FallbackScan(d.l, 1) IN
              IF f.found THEN f.val ELSE NaN

\* _get_min(d)
get_min(d) ==
    IF d.t # "dict" THEN NaN
    ELSE LET a == AliasScan(d.l, 1) IN
         IF a.found THEN a.val
         ELSE LET f == FallbackScan(d.l, 1) IN
              IF f.found THEN f.val ELSE NaN

\* Calendar days are numbered; DATE_STRS[n + 1] is the string the endpoint
\* writes for day n.  pd.to_datetime(k).date(): [ok |-> FALSE] is its exception.
DATE_STRS ==
    << "2024-01-01", "2024-01-02", "2024-01-03", "2024-01-04", "2024-01-05",
       "2024-01-06", "2024-01-07", "2024-01-08", "2024-01-09", "2024-01-10" >>
to_date(k) ==
    IF \E n \in 1..Len(DATE_STRS) : DATE_STRS[n] = k
    THEN [ok |-> TRUE, day |-> (CHOOSE n \in 1..Len(DATE_STRS) : DATE_STRS[n] = k) - 1]
    ELSE [ok |-> FALSE, day |-> 0]

\* a day mapping {date -> rhmin}: a function from days to floats
EmptyMap == [d \in {} |-> NaN]

\* lines 148-155: the loop over the body's items, from item number i on
RECURSIVE ParseItems(_, _, _)
ParseItems(items, i, out) ==
    IF i > Len(items) THEN out
    ELSE IF ~to_date(items[i].k).ok THEN ParseItems(items, i + 1, out)
    ELSE LET d == to_date(items[i].k).day
             r == get_min(items[i].v) IN
         ParseItems(items, i + 1,
                    [x \in (DOMAIN out) \cup {d} |-> IF x = d THEN r ELSE out[x]])

\* _parse_inmet_resp(ibge, j)
parse_inmet_resp(ibge, j) ==
    LET inner == IF j.t = "dict" /\ HasKey(j.l, ibge) /\ Lookup(j.l, ibge).t = "dict"
                 THEN Lookup(j.l, ibge) ELSE j
    IN IF inner.t = "dict" THEN ParseItems(inner.l, 1, EmptyMap) ELSE EmptyMap

(***************************************************************************)
(* Forecast Client (_fetch_one).  What requests.get does is the input: it  *)
(* raises, or returns a response with a status code and a body that        *)
(* r.json() decodes or rejects.                                            *)
(***************************************************************************)
HttpRaise(e)  == [exc |-> e, status |-> 0, json |-> FALSE, body |-> JNull]
HttpStatus(c) == [exc |-> "none", status |-> c, json |-> FALSE, body |-> JNull]
HttpJson(b)   == [exc |-> "none", status |-> 200, json |-> TRUE, body |-> b]

\* plausible slip (and the behaviour section 4.2 describes): the request itself
\* inside the try, every failure turned into the empty mapping
fetch_one_guarded(ibge, h) ==
    IF h.exc # "none" \/ h.status # 200 \/ ~h.json
    THEN [raised |-> FALSE, map |-> EmptyMap]
    ELSE [raised |-> FALSE, map |-> parse_inmet_resp(ibge, h.body)]

\* _fetch_one(ibge), given what its one requests.get call does
fetch_one(ibge, h) ==
    IF h.exc # "none" THEN [raised |-> TRUE, map |-> EmptyMap]
    ELSE IF h.status # 200 THEN [raised |-> FALSE, map |-> EmptyMap]
    ELSE IF ~h.json THEN [raised |-> FALSE, map |-> EmptyMap]
    ELSE [raised |-> FALSE, map |-> parse_inmet_resp(ibge, h.body)]

\* build_df lines 190-193: the caller's read of the future
future_result(r) == IF r.raised THEN EmptyMap ELSE r.map

(***************************************************************************)
(* Concurrent Collector (build_df).  Each entity's fetch runs in the pool; *)
(* the main loop consumes the futures in completion order (as_completed)   *)
(* and appends five rows per entity.                                       *)
(***************************************************************************)
\* target_days (line 181)
target_days(today) == [i \in 1..5 |-> today + (i - 1)]

\* lines 177-178: attr.head(MAX_MUN) when MAX_MUN > 0
head_max_mun(loaded, maxmun) ==
    IF maxmun > 0 /\ maxmun < Len(loaded) THEN SubSeq(loaded, 1, maxmun) ELSE loaded

\* lines 194-205: the five rows of one entity, from target day number i on
RECURSIVE entity_rows(_, _, _, _)
entity_rows(cd, day_map, today, i) ==
    IF i > 5 THEN << >>
    ELSE LET d == target_days(today)[i] IN
         << [CD_MUN |-> cd, data |-> d,
             RHmin |-> IF d \in DOMAIN day_map THEN day_map[d] ELSE NaN,
             RHmax |-> NaN] >>
         \o entity_rows(cd, day_map, today, i + 1)

\* lines 189-205: what consuming one future appends to rows
rows_of_future(cd, r, today) == entity_rows(cd, future_result(r), today, 1)

\* lines 210-215: pd.DataFrame(rows) has no column at all when rows is empty,
\* and df["RHmin"] then raises KeyError
build_result(rows) == IF Len(rows) = 0 THEN "KeyError" ELSE "returned"

\* the rows list after `done` futures, where only its length is followed
entity_count_rows(done) == [i \in 1..(5 * done) |-> i]

(***************************************************************************)
(* Daily Cache (get_data over _CACHE), the demo fallback, the sanitizer    *)
(* and the /refresh trigger.  A dataset is carried as what identifies it:  *)
(* where it came from, the day its target dates start at, its entities,    *)
(* its rows, and whether the sanitizer has been through it.                *)
(***************************************************************************)
NoKey == "None"
NoDf == [kind |-> "None", today |-> 0, n |-> 0, rows |-> 0, sanitized |-> FALSE]

\* line 252: datetime.now(BRT).strftime("%Y-%m-%d")
strftime(day) == DATE_STRS[day + 1]

\* line 210: pd.DataFrame(rows)
DataFrame(today, n, rows) ==
    [kind |-> "inmet", today |-> today, n |-> n, rows |-> rows, sanitized |-> FALSE]

\* _demo_df(): 3 entities x 5 days from today on
demo_df(today) ==
    [kind |-> "demo", today |-> today, n |-> 3, rows |-> 3 * 5, sanitized |-> FALSE]

\* _sanitize_df(df)
sanitize_df(df) == [df EXCEPT !.sanitized = TRUE]

\* plausible slip: only the key replaced
cache_update_key_only(c, key, df) == [c EXCEPT !.key = key]

\* line 262: _CACHE.update(key=key, df=df)
cache_update(c, key, df) == [key |-> key, df |-> df]

\* plausible slip: force ignored
must_check_cache_ignoring_force(force) == TRUE

\* line 253, first conjunct: the cache is consulted only when force is false
must_check_cache(force) == ~force

\* plausible slip: the token never compared
refresh_forbidden_never(cfg, token) == FALSE

\* lines 272-275: the request is rejected
refresh_forbidden(cfg, token) == cfg # "" /\ token # cfg

\* lines 276-280: what the endpoint answers, given how get_data(force=True) ended
refresh_response(ended) ==
    CASE ended = "returned"   -> "ok"
      [] ended = "Exception"  -> "error"
      [] ended = "SystemExit" -> "none"

\* plausible slip: build_df called outside any try
caught_by_get_data_none(exc) == FALSE

\* line 258: `except Exception` catches ordinary exceptions, not SystemExit
caught_by_get_data(exc) == exc = "Exception"

MaxDay == 1
CacheEntities == 2
\* the threads of the server that run requests at the same time (the import
\* runs on the first, alone); every property below is about one caller or
\* about a pair of callers
Threads == {1, 2}
Tokens == {"", "s3cret", "wrong"}

Idle ==
    [pc |-> "idle", req |-> "none", token |-> "", force |-> FALSE, key |-> NoKey,
     today |-> 0, n |-> 0, done |-> 0, built |-> FALSE, err |-> "none",
     df |-> NoDf, ret |-> NoDf, resp |-> "none", call |-> 0]

\* the get_data() calls the import makes, one after the other, before any
\* request is served: line 282, and current_dates() at lines 310, 311, 312
IMPORT_CALLS == 4

\* what load_attr_municipios (and the pd.read_excel in it) can do: return the
\* entities, terminate (SystemExit), or raise an ordinary exception
LoadOutcomes == {"loaded", "SystemExit", "Exception"}

(***************************************************************************)
(* The entity loader, load_attr_municipios (lines 98-113).  A workbook is  *)
(* [exists, columns, rows]: the column names in order and, per row, one    *)
(* cell per column.  Text is a sequence of one-character strings, so that  *)
(* the digit run of an identifier is something the model computes.         *)
(***************************************************************************)
DIGITS == {"0", "1", "2", "3", "4", "5", "6", "7", "8", "9"}

\* a workbook cell: an integer, an integer-valued float, a text, or empty
IntCell(ds) == [t |-> "int", s |-> ds]
FloatCell(ds) == [t |-> "float", s |-> ds]
StrCell(s) == [t |-> "str", s |-> s]
EmptyCell == [t |-> "nan", s |-> << >>]

\* a text value of a column after .str operations: NaN or <<text>>
Str(s) == <<s>>

\* c.lower() for the column names of the workbooks considered
lower(c) ==
    CASE c = "CD_MUN"    -> "cd_mun"
      [] c = "cd_ibge"   -> "cd_ibge"
      [] c = "codigo"    -> "codigo"
      [] c = "NM_MUN"    -> "nm_mun"
      [] c = "nm_mun"    -> "nm_mun"
      [] c = "SIGLA_UF"  -> "sigla_uf"
      [] c = "UF"        -> "uf"
      [] c = "lat"       -> "lat"
      [] c = "lon"       -> "lon"
      [] c = "Latitude"  -> "latitude"
      [] c = "Longitude" -> "longitude"

\* `sub in c.lower()` for sub = "lat" and sub = "lon"
contains_lower(c, sub) ==
    \/ sub = "lat" /\ lower(c) \in {"lat", "latitude"}
    \/ sub = "lon" /\ lower(c) \in {"lon", "longitude"}

\* None, which `or` and `not` treat as false
None == ""

\* line 102: cols_low.get(key); a later column of the same lowered name wins
cols_low_get(cols, key) ==
    LET P == {i \in 1..Len(cols) : lower(cols[i]) = key} IN
    IF P = {} THEN None ELSE cols[CHOOSE i \in P : \A j \in P : j <= i]

\* x or y
Or(x, y) == IF x # None THEN x ELSE y

\* lines 106-107: next((c for c in attr.columns if sub in c.lower()), None)
first_containing(cols, sub) ==
    LET P == {i \in 1..Len(cols) : contains_lower(cols[i], sub)} IN
    IF P = {} THEN None ELSE cols[CHOOSE i \in P : \A j \in P : i <= j]

\* line 110: the name of column c after rename(columns={cd:..., ..., lon:...});
\* in the dict literal a later entry with the same key wins
rename_col(c, cd, nm, uf, lat, lon) ==
    IF c = lon THEN "lon"
    ELSE IF c = lat THEN "lat"
    ELSE IF c = uf THEN "SIGLA_UF"
    ELSE IF c = nm THEN "NM_MUN"
    ELSE IF c = cd THEN "CD_MUN"
    ELSE c

has_col(cols, name) == \E i \in 1..Len(cols) : cols[i] = name
col_pos(cols, name) == CHOOSE i \in 1..Len(cols) : cols[i] = name

\* line 111: .astype(str) of one cell
astype_str(c) ==
    CASE c.t = "int"   -> c.s
      [] c.t = "float" -> c.s \o <<".", "0">>
      [] c.t = "str"   -> c.s
      [] c.t = "nan"   -> <<"n", "a", "n">>

\* line 111: .str.extract(r"(\d+)")[0] of one text: the first maximal run of
\* digits, NaN when the text has no digit
str_extract_digits(s) ==
    LET D == {i \in 1..Len(s) : s[i] \in DIGITS} IN
    IF D = {} THEN NaN
    ELSE LET a == CHOOSE i \in D : \A j \in D : i <= j
             E == {j \in a..Len(s) : \A k \in a..j : s[k] \in DIGITS}
             b == CHOOSE j \in E : \A k \in E : k <= j
         IN Str(SubSeq(s, a, b))

\* line 111: .str.zfill(7) of one value; NaN stays NaN, a text of 7 or more
\* characters is left as it is
ZFILL_WIDTH == 7
str_zfill(x, w) ==
    IF x = NaN THEN NaN
    ELSE IF Len(x[1]) >= w THEN x
    ELSE Str([k \in 1..(w - Len(x[1])) |-> "0"] \o x[1])

\* line 111 for one cell of the identifier column
cd_mun_of(c) == str_zfill(str_extract_digits(astype_str(c)), ZFILL_WIDTH)

\* line 112: dropna(subset=["lat","lon"])
dropna_lat_lon(rows) ==
    SelectSeq(rows, LAMBDA r : r.lat.t # "nan" /\ r.lon.t # "nan")

\* line 112: drop_duplicates("CD_MUN"): the first row of each identifier is
\* kept; pandas counts two NaN identifiers as duplicates of each other
RECURSIVE drop_duplicates_from(_, _)
drop_duplicates_from(rows, seen) ==
    IF rows = << >> THEN << >>
    ELSE IF Head(rows).CD_MUN \in seen
         THEN drop_duplicates_from(Tail(rows), seen)
         ELSE <<Head(rows)>>
              \o drop_duplicates_from(Tail(rows), seen \cup {Head(rows).CD_MUN})

drop_duplicates(rows) == drop_duplicates_from(rows, {})

Raised(exc) == [status |-> exc, rows |-> << >>]
Returned(rows) == [status |-> "returned", rows |-> rows]

\* lines 98-113
load_attr_municipios(file) ==
    IF ~file.exists THEN Raised("SystemExit")
    ELSE
    LET cols == file.columns
        cd  == Or(cols_low_get(cols, "cd_mun"), Or(cols_low_get(cols, "cd_ibge"), "CD_MUN"))
        nm  == Or(cols_low_get(cols, "nm_mun"), "NM_MUN")
        uf  == Or(cols_low_get(cols, "sigla_uf"), Or(cols_low_get(cols, "uf"), "SIGLA_UF"))
        lat == first_containing(cols, "lat")
        lon == first_containing(cols, "lon")
    IN
    IF lat = None \/ lon = None THEN Raised("SystemExit")
    ELSE
    LET out == [i \in 1..Len(cols) |-> rename_col(cols[i], cd, nm, uf, lat, lon)] IN
    IF ~has_col(out, "CD_MUN") \/ ~has_col(out, "NM_MUN") \/ ~has_col(out, "SIGLA_UF")
    THEN Raised("KeyError")
    ELSE
    LET frame == [i \in 1..Len(file.rows) |->
                    [idx      |-> i,
                     CD_MUN   |-> cd_mun_of(file.rows[i][col_pos(out, "CD_MUN")]),
                     NM_MUN   |-> file.rows[i][col_pos(out, "NM_MUN")],
                     SIGLA_UF |-> file.rows[i][col_pos(out, "SIGLA_UF")],
                     lat      |-> file.rows[i][col_pos(out, "lat")],
                     lon      |-> file.rows[i][col_pos(out, "lon")]]]
    IN Returned(drop_duplicates(dropna_lat_lon(frame)))

(***************************************************************************)
(* Inputs of the component specifications.                                 *)
(***************************************************************************)
\* the humidity values the classifier is applied to
ClassifyInputs ==
    {NaN} \cup {Num(n) : n \in (0 - MinRH * Scale) .. (MaxRH * Scale)}

\* the values a per-day record holds, its keys, and the records themselves
MaxKeys == 2
SampleValues ==
    { JNum(28), JNumStr(35), JBadStr, JNanStr, JNull,
      JList(<< >>), JList(<<JNum(40), JNum(22)>>), JList(<<JBadStr, JNum(31)>>),
      JList(<<JNull, JNum(33)>>), JList(<<JBadStr, JNull>>) }
RecordKeys == {ALIASES[i] : i \in 1..Len(ALIASES)} \cup {"umidade"}
ItemSeqs(n) ==
    {s \in [1..n -> [k : RecordKeys, v : SampleValues]] :
        \A i, j \in 1..n : i # j => s[i].k # s[j].k}
DayRecords ==
    {JNull, JNum(28)} \cup {JDict(s) : s \in UNION {ItemSeqs(n) : n \in 0..MaxKeys}}

\* the bodies the endpoint answers with, and what the HTTP call can do
MaxItems == 2
IBGE == "5300108"
SampleRecords ==
    { JNull,
      JDict(<< >>),
      JDict(<<[k |-> "umidade_min", v |-> JNum(18)]>>),
      JDict(<<[k |-> "umidade_min", v |-> JBadStr], [k |-> "ur_min", v |-> JNum(45)]>>),
      JDict(<<[k |-> "umidade", v |-> JList(<<JNum(61), JNum(29)>>)]>>) }
BodyKeys == {DATE_STRS[1], DATE_STRS[2], "amanha"}
BodyItemSeqs(n) ==
    {s \in [1..n -> [k : BodyKeys, v : SampleRecords]] :
        \A i, j \in 1..n : i # j => s[i].k # s[j].k}
FlatBodies == {JDict(s) : s \in UNION {BodyItemSeqs(n) : n \in 0..MaxItems}}
Bodies ==
    {JNull, JList(<<JNum(1)>>)} \cup FlatBodies
    \cup {JDict(<<[k |-> IBGE, v |-> b]>>) : b \in FlatBodies}
HttpOutcomes ==
    {HttpRaise("ConnectionError"), HttpRaise("Timeout"),
     HttpStatus(404), HttpStatus(500), HttpStatus(200)}
    \cup {HttpJson(b) : b \in Bodies}

\* the collector's entities, and what the endpoint does for one of them:
\* the request fails, the status is 500, the body is not JSON, the body gives
\* every day from day 0 on, or the body (keyed by the entity) gives day 0, an
\* unparseable value for day 1 and an unparseable date
MaxEntities == 2
MaxToday == 1
CD_MUNS == << "5300108", "3550308", "3304557", "1302603", "2927408" >>
BuildKinds == {"conn", "e500", "nojson", "full", "partial"}
FullBody ==
    JDict([n \in 1..Len(DATE_STRS) |->
              [k |-> DATE_STRS[n], v |-> JDict(<<[k |-> "umidade_min", v |-> JNum(20 + n)]>>)]])
PartialBody(cd) ==
    JDict(<<[k |-> cd, v |->
        JDict(<< [k |-> DATE_STRS[1], v |-> JDict(<<[k |-> "ur_min", v |-> JNum(18)]>>)],
                 [k |-> DATE_STRS[2], v |-> JDict(<<[k |-> "ur_min", v |-> JBadStr]>>)],
                 [k |-> "amanha", v |-> JDict(<<[k |-> "ur_min", v |-> JNum(50)]>>)] >>)]>>)
BuildOutcome(kind, cd) ==
    CASE kind = "conn"    -> HttpRaise("ConnectionError")
      [] kind = "e500"    -> HttpStatus(500)
      [] kind = "nojson"  -> HttpStatus(200)
      [] kind = "full"    -> HttpJson(FullBody)
      [] kind = "partial" -> HttpJson(PartialBody(cd))

\* the workbooks the loader is applied to: the identifier cells, the
\* coordinate cells, the column layouts, and up to MaxRows rows
MaxRows == 2
IdCells ==
    { IntCell(<<"4", "2">>), FloatCell(<<"4", "2">>), StrCell(<<"4", "2">>),
      StrCell(<<"a", "7", "b", "4", "2">>), StrCell(<<"x">>), EmptyCell,
      StrCell(<<"1", "2", "3", "4", "5", "6", "7", "8">>) }
CoordCells == {FloatCell(<<"9">>), EmptyCell}
Layouts ==
    { <<"CD_MUN", "NM_MUN", "SIGLA_UF", "lat", "lon">>,
      <<"cd_ibge", "nm_mun", "UF", "Latitude", "Longitude">>,
      <<"codigo", "NM_MUN", "SIGLA_UF", "lat", "lon">>,
      <<"CD_MUN", "NM_MUN", "SIGLA_UF", "lon">> }
ColumnCells(c) ==
    IF lower(c) \in {"cd_mun", "cd_ibge", "codigo"} THEN IdCells
    ELSE IF contains_lower(c, "lat") \/ contains_lower(c, "lon") THEN CoordCells
    ELSE {StrCell(<<"n">>)}
SheetRows(cols) ==
    {[p \in 1..Len(cols) |->
         IF ColumnCells(cols[p]) = IdCells THEN id
         ELSE IF contains_lower(cols[p], "lat") THEN la
         ELSE IF contains_lower(cols[p], "lon") THEN lo
         ELSE StrCell(<<"n">>)] :
        id \in IdCells, la \in CoordCells, lo \in CoordCells}
NoFile == [exists |-> FALSE, columns |-> << >>, rows |-> << >>]
Workbook(cols, rs) == [exists |-> TRUE, columns |-> cols, rows |-> rs]

(***************************************************************************)
(* The specifications: one per component, told apart by `mode`.            *)
(***************************************************************************)
ParkedClassify == cv = NaN /\ cout = "unused"

ParkedNorm ==
    /\ prec = JNull
    /\ pout = NaN

ParkedFetch ==
    /\ http = HttpStatus(0)
    /\ fres = [raised |-> FALSE, map |-> EmptyMap]
    /\ nreq = 0

ParkedBuild ==
    /\ bloaded = << >> /\ bmaxmun = 0 /\ bresp = << >> /\ battr = << >>
    /\ btoday = 0 /\ bdone = {} /\ brows = << >> /\ bstate = "unused"

ParkedCache ==
    /\ now = 0 /\ rtoken = "" /\ booted = "unused"
    /\ cache = [key |-> NoKey, df |-> NoDf]
    /\ th = [t \in Threads |-> Idle]

ParkedLoad ==
    /\ lfile = NoFile
    /\ lres = Raised("unused")

InitClassify ==
    /\ mode = "classify"
    /\ step = "start"
    /\ cv \in ClassifyInputs
    /\ cout = "pending"
    /\ ParkedNorm
    /\ ParkedFetch
    /\ ParkedBuild
    /\ ParkedCache
    /\ ParkedLoad

Classify ==
    /\ mode = "classify"
    /\ step = "start"
    /\ cout' = classificar_rhmin(cv)
    /\ step' = "done"
    /\ UNCHANGED <<mode, cv, normVars, fetchVars, buildVars, cacheVars, loadVars>>

NextClassify == Classify

SpecClassify == InitClassify /\ [][NextClassify]_vars

InitParse ==
    /\ mode = "parse"
    /\ step = "start"
    /\ prec \in DayRecords
    /\ pout = NaN
    /\ ParkedClassify
    /\ ParkedFetch
    /\ ParkedBuild
    /\ ParkedCache
    /\ ParkedLoad

GetMin ==
    /\ mode = "parse"
    /\ step = "start"
    /\ pout' = get_min(prec)
    /\ step' = "done"
    /\ UNCHANGED <<mode, cv, cout, prec, fetchVars, buildVars, cacheVars, loadVars>>

NextParse == GetMin

SpecParse == InitParse /\ [][NextParse]_vars

InitFetch ==
    /\ mode = "fetch"
    /\ step = "start"
    /\ http \in HttpOutcomes
    /\ fres = [raised |-> FALSE, map |-> EmptyMap]
    /\ nreq = 0
    /\ ParkedClassify
    /\ ParkedNorm
    /\ ParkedBuild
    /\ ParkedCache
    /\ ParkedLoad

FetchOne ==
    /\ mode = "fetch"
    /\ step = "start"
    /\ nreq' = nreq + 1
    /\ fres' = fetch_one(IBGE, http)
    /\ step' = "done"
    /\ UNCHANGED <<mode, cv, cout, normVars, http, buildVars, cacheVars, loadVars>>

NextFetch == FetchOne

SpecFetch == InitFetch /\ [][NextFetch]_vars

InitBuild ==
    /\ mode = "build"
    /\ step = "start"
    /\ \E n \in 0..MaxEntities :
          /\ bloaded = SubSeq(CD_MUNS, 1, n)
          /\ bresp \in [1..n -> BuildKinds]
    /\ bmaxmun \in {0, 1}
    /\ battr = << >> /\ btoday = 0 /\ bdone = {} /\ brows = << >>
    /\ bstate = "init"
    /\ ParkedClassify /\ ParkedNorm /\ ParkedFetch /\ ParkedCache /\ ParkedLoad

\* lines 176-187: attr, today, and the futures submitted
BuildStart ==
    /\ mode = "build" /\ bstate = "init"
    /\ battr' = head_max_mun(bloaded, bmaxmun)
    /\ \E t \in 0..MaxToday : btoday' = t
    /\ bstate' = "collect"
    /\ UNCHANGED <<mode, cv, cout, step, normVars, fetchVars, cacheVars, loadVars,
                   bloaded, bmaxmun, bresp, bdone, brows>>

\* lines 188-205: one more future completes and its rows are appended
BuildConsume(i) ==
    /\ mode = "build" /\ bstate = "collect"
    /\ i \in (1..Len(battr)) \ bdone
    /\ brows' = brows \o rows_of_future(battr[i],
                             fetch_one(battr[i], BuildOutcome(bresp[i], battr[i])),
                             btoday)
    /\ bdone' = bdone \cup {i}
    /\ UNCHANGED <<mode, cv, cout, step, normVars, fetchVars, cacheVars, loadVars,
                   bloaded, bmaxmun, bresp, battr, btoday, bstate>>

\* lines 210-215: every future consumed; the frame is built and returned
BuildFinish ==
    /\ mode = "build" /\ bstate = "collect"
    /\ bdone = 1..Len(battr)
    /\ bstate' = build_result(brows)
    /\ step' = "done"
    /\ UNCHANGED <<mode, cv, cout, normVars, fetchVars, cacheVars, loadVars,
                   bloaded, bmaxmun, bresp, battr, btoday, bdone, brows>>

NextBuild ==
    \/ BuildStart
    \/ \E i \in 1..MaxEntities : BuildConsume(i)
    \/ BuildFinish

SpecBuild == InitBuild /\ [][NextBuild]_vars

InitLoad ==
    /\ mode = "load"
    /\ step = "start"
    /\ \/ lfile = NoFile
       \/ \E cols \in Layouts : \E n \in 0..MaxRows :
             \E rs \in [1..n -> SheetRows(cols)] : lfile = Workbook(cols, rs)
    /\ lres = Raised("pending")
    /\ ParkedClassify /\ ParkedNorm /\ ParkedFetch /\ ParkedBuild /\ ParkedCache

\* line 176: attr = load_attr_municipios(ATTR_XLSX)
LoadAttr ==
    /\ mode = "load"
    /\ step = "start"
    /\ lres' = load_attr_municipios(lfile)
    /\ step' = "done"
    /\ UNCHANGED <<mode, cv, cout, normVars, fetchVars, buildVars, cacheVars, lfile>>

NextLoad == LoadAttr

SpecLoad == InitLoad /\ [][NextLoad]_vars

others == <<mode, cv, cout, step, normVars, fetchVars, buildVars, loadVars>>

\* The state after line 218, as line 282 (umid = get_data()) begins: the
\* import runs its get_data() calls alone, on thread 1, before any request is
\* served; this is the first of them.
InitCache ==
    /\ mode = "cache"
    /\ step = "start"
    /\ now = 0
    /\ rtoken \in {"", "s3cret"}
    /\ booted = "importing"
    /\ cache = [key |-> NoKey, df |-> NoDf]
    /\ th = [t \in Threads |->
               IF t = 1 THEN [Idle EXCEPT !.pc = "key", !.req = "import", !.call = 1]
               ELSE Idle]
    /\ ParkedClassify /\ ParkedNorm /\ ParkedFetch /\ ParkedBuild /\ ParkedLoad

\* midnight in the operating timezone
Tick ==
    /\ mode = "cache" /\ booted # "dead"
    /\ now < MaxDay
    /\ now' = now + 1
    /\ UNCHANGED <<rtoken, booted, cache, th, others>>

\* a dashboard callback calls get_data()
CallbackStart(t) ==
    /\ mode = "cache" /\ booted = "serving"
    /\ th[t].pc = "idle"
    /\ th' = [th EXCEPT ![t] = [Idle EXCEPT !.pc = "key", !.req = "callback"]]
    /\ UNCHANGED <<now, rtoken, booted, cache, others>>

\* refresh_endpoint, lines 272-277: rejected, or on to get_data(force=True)
RefreshStart(t, token) ==
    /\ mode = "cache" /\ booted = "serving"
    /\ th[t].pc = "idle"
    /\ th' = [th EXCEPT ![t] =
                IF refresh_forbidden(rtoken, token)
                THEN [Idle EXCEPT !.pc = "ret", !.req = "refresh", !.token = token,
                                  !.resp = "forbidden"]
                ELSE [Idle EXCEPT !.pc = "key", !.req = "refresh", !.token = token,
                                  !.force = TRUE]]
    /\ UNCHANGED <<now, rtoken, booted, cache, others>>

\* line 252
GetKey(t) ==
    /\ mode = "cache" /\ th[t].pc = "key"
    /\ th' = [th EXCEPT ![t].key = strftime(now), ![t].pc = "chk"]
    /\ UNCHANGED <<now, rtoken, booted, cache, others>>

\* line 253: (not force) and _CACHE["key"] == key
ChkKey(t) ==
    /\ mode = "cache" /\ th[t].pc = "chk"
    /\ th' = [th EXCEPT ![t].pc =
                IF must_check_cache(th[t].force) /\ cache.key = th[t].key
                THEN "chkdf" ELSE "load"]
    /\ UNCHANGED <<now, rtoken, booted, cache, others>>

\* line 253: and _CACHE["df"] is not None
ChkDf(t) ==
    /\ mode = "cache" /\ th[t].pc = "chkdf"
    /\ th' = [th EXCEPT ![t].pc = IF cache.df # NoDf THEN "hit" ELSE "load"]
    /\ UNCHANGED <<now, rtoken, booted, cache, others>>

\* line 254: return _CACHE["df"]
Hit(t) ==
    /\ mode = "cache" /\ th[t].pc = "hit"
    /\ th' = [th EXCEPT ![t].ret = cache.df, ![t].pc = "ret",
                        ![t].resp = IF th[t].req = "refresh"
                                    THEN refresh_response("returned") ELSE "data"]
    /\ UNCHANGED <<now, rtoken, booted, cache, others>>

\* lines 176-178: load_attr_municipios returns n entities, or raises; what it
\* raises is caught at line 258 (on to the demo data) or leaves get_data
Load(t) ==
    /\ mode = "cache" /\ th[t].pc = "load"
    /\ \E o \in LoadOutcomes :
          \/ /\ o = "loaded"
             /\ \E n \in 0..CacheEntities :
                   th' = [th EXCEPT ![t].n = n, ![t].built = TRUE, ![t].pc = "today"]
          \/ /\ o # "loaded"
             /\ th' = [th EXCEPT ![t].err = o, ![t].built = TRUE,
                                 ![t].pc = IF caught_by_get_data(o) THEN "demo" ELSE "fatal",
                                 ![t].resp = IF caught_by_get_data(o) THEN "none"
                                             ELSE refresh_response(o)]
    /\ UNCHANGED <<now, rtoken, booted, cache, others>>

\* lines 180-187: today, target_days, the futures submitted
Today(t) ==
    /\ mode = "cache" /\ th[t].pc = "today"
    /\ th' = [th EXCEPT ![t].today = now, ![t].pc = "collect"]
    /\ UNCHANGED <<now, rtoken, booted, cache, others>>

\* lines 188-205: one more future consumed, five rows appended to rows
Consume(t) ==
    /\ mode = "cache" /\ th[t].pc = "collect"
    /\ th[t].done < th[t].n
    /\ th' = [th EXCEPT ![t].done = th[t].done + 1]
    /\ UNCHANGED <<now, rtoken, booted, cache, others>>

\* lines 210-215 and 261: the frame of the rows, df["RHmin"] (KeyError on the
\* column-less frame of no rows, caught at line 258), then the sanitizer
Frame(t) ==
    /\ mode = "cache" /\ th[t].pc = "collect"
    /\ th[t].done = th[t].n
    /\ th' = [th EXCEPT ![t] =
                IF build_result(entity_count_rows(th[t].done)) = "KeyError"
                THEN [th[t] EXCEPT !.err = "Exception", !.pc = "demo"]
                ELSE [th[t] EXCEPT
                        !.df = sanitize_df(DataFrame(th[t].today, th[t].n,
                                                     5 * th[t].done)),
                        !.today = 0, !.n = 0, !.done = 0,
                        !.pc = "store"]]
    /\ UNCHANGED <<now, rtoken, booted, cache, others>>

\* lines 259-261: the demo data, with its own today, then the sanitizer
Demo(t) ==
    /\ mode = "cache" /\ th[t].pc = "demo"
    /\ th' = [th EXCEPT ![t].df = sanitize_df(demo_df(now)), ![t].pc = "store"]
    /\ UNCHANGED <<now, rtoken, booted, cache, others>>

\* lines 262-263: the cache entry replaced, the dataset returned
Store(t) ==
    /\ mode = "cache" /\ th[t].pc = "store"
    /\ cache' = cache_update(cache, th[t].key, th[t].df)
    /\ th' = [th EXCEPT ![t].ret = th[t].df, ![t].pc = "ret",
                        ![t].resp = IF th[t].req = "refresh"
                                    THEN refresh_response("returned") ELSE "data"]
    /\ UNCHANGED <<now, rtoken, booted, others>>

\* the call is over. A request ends with it (a SystemExit ends its thread).
\* The import goes on to its next get_data() call (lines 282, 310, 311, 312);
\* the return of the last one starts the server, and a SystemExit out of any
\* of them ends the process
Finish(t) ==
    /\ mode = "cache" /\ th[t].pc \in {"ret", "fatal"}
    /\ booted # "dead"
    /\ IF th[t].req = "import"
       THEN IF th[t].pc = "fatal"
            THEN booted' = "dead" /\ th' = th
            ELSE IF th[t].call < IMPORT_CALLS
            THEN /\ booted' = booted
                 /\ th' = [th EXCEPT ![t] = [Idle EXCEPT !.pc = "key", !.req = "import",
                                                         !.call = th[t].call + 1]]
            ELSE booted' = "serving" /\ th' = [th EXCEPT ![t] = Idle]
       ELSE booted' = booted /\ th' = [th EXCEPT ![t] = Idle]
    /\ UNCHANGED <<now, rtoken, cache, others>>

Next ==
    \/ Tick
    \/ \E t \in Threads :
          \/ CallbackStart(t)
          \/ \E token \in Tokens : RefreshStart(t, token)
          \/ GetKey(t)
          \/ ChkKey(t)
          \/ ChkDf(t)
          \/ Hit(t)
          \/ Load(t)
          \/ Today(t)
          \/ Consume(t)
          \/ Frame(t)
          \/ Demo(t)
          \/ Store(t)
          \/ Finish(t)

Spec == InitCache /\ [][Next]_vars

(***************************************************************************)
(* The properties.                                                         *)
(***************************************************************************)
\* C7: the classifier equals the table of section 4.7 for every input:
\* v > 60 Ideal; 41..60 Near-ideal; 30..40 Observation; 20..29 Attention;
\* 12..19 Alert; 0 <= v < 12 Emergency; unknown, negative or in a gap between
\* two closed bins: undefined.  Every integer of 0..100 gets exactly one class.
C7_ClassifierTable ==
    (mode = "classify" /\ step = "done") =>
        /\ cv = NaN => cout = NoClass
        /\ cv # NaN =>
            LET v == cv[1] IN
            /\ v > 60 * Scale => cout = CLASS_ORDER[1]
            /\ (41 * Scale <= v /\ v <= 60 * Scale) => cout = CLASS_ORDER[2]
            /\ (30 * Scale <= v /\ v <= 40 * Scale) => cout = CLASS_ORDER[3]
            /\ (20 * Scale <= v /\ v <= 29 * Scale) => cout = CLASS_ORDER[4]
            /\ (12 * Scale <= v /\ v <= 19 * Scale) => cout = CLASS_ORDER[5]
            /\ (0 <= v /\ v < 12 * Scale) => cout = CLASS_ORDER[6]
            /\ v < 0 => cout = NoClass
            /\ (19 * Scale < v /\ v < 20 * Scale) => cout = NoClass
            /\ (29 * Scale < v /\ v < 30 * Scale) => cout = NoClass
            /\ (40 * Scale < v /\ v < 41 * Scale) => cout = NoClass
            /\ (\E n \in 0..100 : v = n * Scale) =>
                   Cardinality({i \in 1..6 : CLASS_ORDER[i] = cout}) = 1

\* a value strictly inside the gap (29,30) has been classified as undefined
C7_Witness ==
    /\ mode = "classify" /\ step = "done"
    /\ cv # NaN
    /\ 29 * Scale < cv[1] /\ cv[1] < 30 * Scale
    /\ cout = NoClass

\* the aliases present in a record, and those holding a value float() accepts
PresentAliases(items) == {i \in 1..Len(ALIASES) : HasKey(items, ALIASES[i])}
ParseableAliases(items) ==
    {i \in PresentAliases(items) : Float(Lookup(items, ALIASES[i])).ok}
\* the items whose value is a list the fallback can use
UsableLists(items) ==
    {i \in 1..Len(items) : ScalarList(items[i].v) /\ NanMin(items[i].v.l) # NaN}
First(S) == CHOOSE m \in S : \A o \in S : m <= o

\* C10 as stated: the first alias present decides (unknown when its value is
\* unparseable) and the hourly fallback is used only when no alias is present
C10_FirstPresentAlias ==
    (mode = "parse" /\ step = "done" /\ prec.t = "dict") =>
        LET P == PresentAliases(prec.l) IN
        /\ P # {} =>
             LET f == Float(Lookup(prec.l, ALIASES[First(P)])) IN
             pout = (IF f.ok THEN f.val ELSE NaN)
        /\ P = {} =>
             LET U == UsableLists(prec.l) IN
             pout = (IF U = {} THEN NaN ELSE NanMin(prec.l[First(U)].v.l))

\* C10 amended: the first alias, in alias order, that is present with a value
\* float() accepts decides; when there is none (no alias, or only unparseable
\* ones) the first usable list of the record gives its minimum; else unknown
C10_FirstParseableAlias ==
    (mode = "parse" /\ step = "done") =>
        IF prec.t # "dict" THEN pout = NaN
        ELSE LET Q == ParseableAliases(prec.l)
                 U == UsableLists(prec.l) IN
             /\ Q # {} => pout = Float(Lookup(prec.l, ALIASES[First(Q)])).val
             /\ (Q = {} /\ U # {}) => pout = NanMin(prec.l[First(U)].v.l)
             /\ (Q = {} /\ U = {}) => pout = NaN

\* a record whose first present alias is unparseable and whose later alias
\* holds a number has been normalized to that number
C10_Witness ==
    /\ mode = "parse" /\ step = "done" /\ prec.t = "dict"
    /\ PresentAliases(prec.l) # {}
    /\ ParseableAliases(prec.l) # {}
    /\ First(PresentAliases(prec.l)) # First(ParseableAliases(prec.l))
    /\ pout # NaN

HttpFailed(h) == h.exc # "none" \/ h.status # 200 \/ ~h.json \/ h.body.t # "dict"

\* C9 as stated: whatever the HTTP call does, _fetch_one returns (the empty
\* result on a failure) instead of raising, after exactly one request
C9_NeverRaises ==
    (mode = "fetch" /\ step = "done") =>
        /\ ~fres.raised
        /\ HttpFailed(http) => fres.map = EmptyMap
        /\ nreq = 1

\* C9 amended: _fetch_one returns the empty result for a non-200 status and a
\* non-JSON or malformed body; a connection failure or timeout raised by the
\* request leaves _fetch_one as an exception, and it is the caller (build_df)
\* that turns it into the empty mapping; one request, no retry
C9_RaisesOnlyFromRequest ==
    (mode = "fetch" /\ step = "done") =>
        /\ fres.raised <=> http.exc # "none"
        /\ HttpFailed(http) => future_result(fres) = EmptyMap
        /\ (~fres.raised /\ HttpFailed(http)) => fres.map = EmptyMap
        /\ nreq = 1

\* a fetch whose request timed out has raised, and its caller reads no data
C9_Witness ==
    /\ mode = "fetch" /\ step = "done"
    /\ http.exc = "Timeout"
    /\ fres.raised
    /\ future_result(fres) = EmptyMap

\* the rows of the table for entity number i and day d
RowsFor(i, d) == {r \in 1..Len(brows) : brows[r].CD_MUN = battr[i] /\ brows[r].data = d}
FetchOf(i) == fetch_one(battr[i], BuildOutcome(bresp[i], battr[i]))
TableComplete ==
    /\ Len(brows) = 5 * Len(battr)
    /\ \A i \in 1..Len(battr) : \A d \in btoday..(btoday + 4) :
          /\ Cardinality(RowsFor(i, d)) = 1
          /\ \A r \in RowsFor(i, d) :
                /\ HttpFailed(BuildOutcome(bresp[i], battr[i])) => brows[r].RHmin = NaN
                /\ d \notin DOMAIN FetchOf(i).map => brows[r].RHmin = NaN
                /\ (~FetchOf(i).raised /\ d \in DOMAIN FetchOf(i).map)
                       => brows[r].RHmin = FetchOf(i).map[d]

\* C5 as stated: for every number N >= 0 of entities and every set of failed
\* fetches, build_df completes and returns exactly N x 5 rows, one per
\* (entity, target date), unknown where the mapping has no value
C5_CollectorComplete ==
    (mode = "build" /\ step = "done") => (bstate = "returned" /\ TableComplete)

\* the same for N >= 1 (the runs that do return)
Build_ReturnedComplete ==
    (mode = "build" /\ step = "done" /\ Len(battr) > 0)
        => (bstate = "returned" /\ TableComplete)

\* with no entity at all the run ends in KeyError instead of an empty table
Build_EmptyRaises ==
    (mode = "build" /\ step = "done" /\ Len(battr) = 0) => bstate = "KeyError"

(***************************************************************************)
(* The daily cache.                                                        *)
(***************************************************************************)
\* the thread is inside build_df / inside the rebuild path of get_data
InBuildDf(t) == th[t].pc \in {"load", "today", "collect"}
Rebuilding(t) == th[t].pc \in {"load", "today", "collect", "demo", "store"}
\* a dataset that is whole: sanitized, with five rows for each of its entities
Whole(df) == df.sanitized /\ df.n >= 1 /\ df.rows = 5 * df.n
IsDemo(df) == df.kind = "demo" /\ df.n = 3 /\ df.rows = 15 /\ df.sanitized

\* C1: the check-key / rebuild / store sequence of get_data is mutually
\* exclusive: at most one collection run is in progress at any time and no two
\* callers rebuild for the same key at once
C1_MutualExclusion ==
    /\ Cardinality({t \in Threads : InBuildDf(t)}) <= 1
    /\ \A t, u \in Threads :
          (t # u /\ Rebuilding(t) /\ Rebuilding(u)) => th[t].key # th[u].key

\* C2: whenever the cache holds a dataset, the dataset's dates are the day the
\* stored key names and the four days after it
C2_KeyMatchesDataset ==
    cache.df # NoDf => cache.key = strftime(cache.df.today)

\* C3: get_data rebuilds if and only if force is true, or the stored key
\* differs from the caller's date key, or no dataset is stored; otherwise it
\* returns the stored dataset, the cache untouched and the pipeline not run;
\* a forced call always rebuilds
C3_RebuildIff ==
    /\ [](\A t \in Threads :
            /\ th[t].force => th[t].pc \notin {"chkdf", "hit"}
            /\ (th[t].force /\ th[t].pc = "ret") => th[t].built
            /\ th[t].pc \in {"chkdf", "hit"} => ~th[t].built)
    /\ [][\A t \in Threads :
            /\ th[t].pc = "chk" =>
                  th'[t].pc = (IF ~th[t].force /\ cache.key = th[t].key
                               THEN "chkdf" ELSE "load")
                  \/ th'[t] = th[t]
            /\ th[t].pc = "chkdf" =>
                  th'[t].pc = (IF cache.df # NoDf THEN "hit" ELSE "load")
                  \/ th'[t] = th[t]
            /\ (th[t].pc = "hit" /\ th'[t].pc # "hit") =>
                  /\ th'[t].pc = "ret"
                  /\ th'[t].ret = cache.df
                  /\ ~th'[t].built
                  /\ cache' = cache
            /\ (~Rebuilding(t) /\ Rebuilding(t)') => th[t].pc \in {"chk", "chkdf"}
         ]_vars

\* one caller has been served the stored dataset without a rebuild while a
\* forced caller rebuilds although the stored key matches its key
C3_Witness ==
    \E t, u \in Threads :
        /\ th[t].pc = "ret" /\ ~th[t].built /\ ~th[t].force
        /\ th[t].ret = cache.df /\ cache.df # NoDf
        /\ th[u].force /\ th[u].pc = "load" /\ cache.key = th[u].key

\* C4 as stated: whatever the pipeline raises inside get_data, the loader's
\* fatal terminations included, get_data goes on to the demo dataset
C4_AlwaysFallsBack ==
    \A t \in Threads :
        th[t].err # "none" =>
            /\ th[t].pc \in {"demo", "store", "ret"}
            /\ th[t].pc \in {"store", "ret"} => IsDemo(th[t].df)

\* C4 amended: when the pipeline raises an ordinary exception get_data stores
\* and returns the sanitized demo dataset (3 entities x 5 dates), through
\* /refresh as well; a fatal termination of the loader (SystemExit) is not
\* caught: it leaves get_data with nothing stored and nothing returned
C4_FallsBackOnException ==
    /\ [](\A t \in Threads :
            /\ th[t].err = "Exception" =>
                  /\ th[t].pc \in {"demo", "store", "ret"}
                  /\ th[t].pc \in {"store", "ret"} => IsDemo(th[t].df)
                  /\ th[t].pc = "ret" =>
                        (th[t].ret = th[t].df /\ th[t].resp \in {"data", "ok"})
            /\ th[t].err = "SystemExit" =>
                  (th[t].pc = "fatal" /\ th[t].ret = NoDf /\ th[t].resp = "none"))
    /\ [][\A t \in Threads :
            /\ (th'[t].err = "Exception" /\ th[t].pc = "store" /\ th'[t].pc = "ret")
                  => (cache'.df = th'[t].ret /\ cache'.key = th[t].key)
            /\ (th[t].pc # "fatal" /\ th'[t].pc = "fatal") => cache' = cache
         ]_vars

\* a /refresh whose pipeline raised has stored and returned the demo dataset
C4_Witness ==
    \E t \in Threads :
        /\ th[t].req = "refresh" /\ th[t].err = "Exception" /\ th[t].pc = "ret"
        /\ IsDemo(th[t].ret) /\ cache.df = th[t].ret /\ th[t].resp = "ok"

\* C6: a reader is handed a whole, sanitized dataset, the stored one or a
\* newly built one, never a table in the making; the cache entry is replaced
\* as a pair, by one caller's key together with that caller's dataset
C6_WholeDatasets ==
    /\ []( /\ (cache.key = NoKey) <=> (cache.df = NoDf)
           /\ cache.df # NoDf => Whole(cache.df)
           /\ \A t \in Threads :
                 (th[t].pc = "ret" /\ th[t].resp \in {"data", "ok"})
                     => Whole(th[t].ret) )
    /\ [][cache' # cache =>
             \E t \in Threads :
                 /\ th[t].pc = "store"
                 /\ Whole(th[t].df)
                 /\ cache' = [key |-> th[t].key, df |-> th[t].df]
         ]_vars

\* a reader has been handed the stored dataset while another caller's table
\* is partly built
C6_Witness ==
    \E t, u \in Threads :
        /\ th[t].pc = "collect" /\ 0 < th[t].done /\ th[t].done < th[t].n
        /\ th[u].pc = "ret" /\ th[u].ret = cache.df /\ Whole(th[u].ret)

\* the request's token does not match the configured credential
Mismatch(t) == rtoken # "" /\ th[t].token # rtoken

\* C8 as stated: with a credential configured a /refresh with another token
\* is rejected without get_data and without touching the cache; any other
\* /refresh runs get_data(force=true) and reports its outcome as ok / error
C8_RefreshReportsOutcome ==
    /\ [](\A t \in Threads :
            th[t].req = "refresh" =>
               /\ Mismatch(t) =>
                     (th[t].pc = "ret" /\ th[t].resp = "forbidden" /\ ~th[t].built)
               /\ ~Mismatch(t) =>
                     /\ th[t].force
                     /\ th[t].resp # "forbidden"
                     /\ th[t].pc \in {"ret", "fatal"} => th[t].resp \in {"ok", "error"})
    /\ [][\A t \in Threads :
            /\ (th[t].pc = "idle" /\ th'[t].req = "refresh" /\ Mismatch(t)')
                  => (th'[t].pc = "ret" /\ cache' = cache)
            /\ (th[t].resp = "forbidden" /\ th'[t] # th[t])
                  => (th'[t] = Idle /\ cache' = cache)
         ]_vars

\* what does hold: the token guard, and "ok" whenever get_data returns; the
\* only failure that reaches the endpoint is the loader's SystemExit, which
\* `except Exception` (line 279) does not catch, so no "error" is ever reported
C8_RefreshGuard ==
    /\ [](\A t \in Threads :
            th[t].req = "refresh" =>
               /\ Mismatch(t) =>
                     (th[t].pc = "ret" /\ th[t].resp = "forbidden" /\ ~th[t].built)
               /\ ~Mismatch(t) =>
                     /\ th[t].force
                     /\ th[t].resp # "forbidden"
                     /\ th[t].pc = "ret" => (th[t].resp = "ok" /\ th[t].built)
                     /\ th[t].pc = "fatal" =>
                           (th[t].err = "SystemExit" /\ th[t].resp = "none"))
    /\ [][\A t \in Threads :
            /\ (th[t].pc = "idle" /\ th'[t].req = "refresh" /\ Mismatch(t)')
                  => (th'[t].pc = "ret" /\ cache' = cache)
            /\ (th[t].resp = "forbidden" /\ th'[t] # th[t])
                  => (th'[t] = Idle /\ cache' = cache)
         ]_vars

\* a /refresh with a wrong token has been answered "forbidden" while the
\* cache holds a dataset
C8_Witness ==
    \E t \in Threads :
        /\ rtoken # "" /\ th[t].req = "refresh" /\ th[t].token = "wrong"
        /\ th[t].pc = "ret" /\ th[t].resp = "forbidden"
        /\ cache.df # NoDf

(***************************************************************************)
(* The entity loader.                                                      *)
(***************************************************************************)
Loaded == mode = "load" /\ step = "done" /\ lres.status = "returned"

\* the identifier cell of input row i, as text, in a workbook the loader reads
IdColumn ==
    CHOOSE p \in 1..Len(lfile.columns) :
        lower(lfile.columns[p]) \in {"cd_mun", "cd_ibge"}
IdText(i) == astype_str(lfile.rows[i][IdColumn])
HasDigit(s) == \E k \in 1..Len(s) : s[k] \in DIGITS
HasCoords(i) ==
    \A p \in 1..Len(lfile.columns) :
        (contains_lower(lfile.columns[p], "lat") \/ contains_lower(lfile.columns[p], "lon"))
            => lfile.rows[i][p].t # "nan"

\* id is a run of digits of text s, padded with zeros on the left to 7 characters
PaddedDigitRun(id, s) ==
    /\ id # NaN
    /\ Len(id[1]) >= 7
    /\ \A k \in 1..Len(id[1]) : id[1][k] \in DIGITS
    /\ \E a \in 1..Len(s) : \E b \in a..Len(s) :
          LET run == SubSeq(s, a, b) IN
          /\ \A k \in 1..Len(run) : run[k] \in DIGITS
          /\ IF Len(run) >= 7 THEN id[1] = run
             ELSE id[1] = [k \in 1..(7 - Len(run)) |-> "0"] \o run

\* C11 as stated: every entity load_attr_municipios returns has an identifier
\* parsed from a digit run and zero-padded to 7 characters; every input row
\* whose identifier has no digit is dropped, so no loaded entity has an absent
\* identifier; identifiers are unique, the first occurrence kept
C11_LoadedIdentifiers ==
    Loaded =>
        /\ \A r \in 1..Len(lres.rows) :
              PaddedDigitRun(lres.rows[r].CD_MUN, IdText(lres.rows[r].idx))
        /\ \A i \in 1..Len(lfile.rows) :
              ~HasDigit(IdText(i)) => \A r \in 1..Len(lres.rows) : lres.rows[r].idx # i
        /\ \A r, q \in 1..Len(lres.rows) :
              r # q => lres.rows[r].CD_MUN # lres.rows[q].CD_MUN
        /\ \A r \in 1..Len(lres.rows) : \A i \in 1..(lres.rows[r].idx - 1) :
              HasCoords(i) => cd_mun_of(lfile.rows[i][IdColumn]) # lres.rows[r].CD_MUN

\* what does hold: an identifier is absent or a padded digit run of its row,
\* the identifiers (the absent one included) are unique with the first
\* occurrence kept, and the rows come in the order of the workbook
Load_DigitRunOrAbsent ==
    Loaded =>
        /\ \A r \in 1..Len(lres.rows) :
              LET id == lres.rows[r].CD_MUN
                  s  == IdText(lres.rows[r].idx) IN
              IF HasDigit(s) THEN PaddedDigitRun(id, s) ELSE id = NaN
        /\ \A r, q \in 1..Len(lres.rows) :
              r # q => lres.rows[r].CD_MUN # lres.rows[q].CD_MUN
        /\ \A r, q \in 1..Len(lres.rows) :
              r < q => lres.rows[r].idx < lres.rows[q].idx
        /\ \A r \in 1..Len(lres.rows) : \A i \in 1..(lres.rows[r].idx - 1) :
              HasCoords(i) => cd_mun_of(lfile.rows[i][IdColumn]) # lres.rows[r].CD_MUN
        /\ \A i \in 1..Len(lfile.rows) :
              HasCoords(i) =>
                  \E r \in 1..Len(lres.rows) :
                      lres.rows[r].CD_MUN = cd_mun_of(lfile.rows[i][IdColumn])

(***************************************************************************)
(* The order of the stored keys.                                           *)
(***************************************************************************)
\* the day a stored key names; the keys are ISO dates, so their order as
\* strings is the order of the days
KeyDay(k) == to_date(k).day

\* C12 as stated: over any sequence and interleaving of get_data calls, each
\* store into the cache leaves a key greater than or equal to the key stored
\* before it, so a dataset built for an earlier day never replaces one built
\* for a later day
C12_KeyNeverGoesBack ==
    [][cache.key # NoKey =>
          (cache'.key # NoKey /\ KeyDay(cache'.key) >= KeyDay(cache.key))]_vars

\* what does hold: a stored key never names a day that has not begun
Cache_KeyNotAhead ==
    cache.key # NoKey => KeyDay(cache.key) <= now

====
